---- MODULE Spec2Model ----
(***************************************************************************)
(* Model of temperature_data/normalize_temps.py: the two CSV loaders and   *)
(* the finalization / reporting loop of calculate_temp_data.               *)
(*                                                                         *)
(* Units.  A raw CSV temperature is an integer number of thousandths of a  *)
(* degree Fahrenheit; a stored temperature (after round(x, 2)) is an       *)
(* integer number of hundredths.  A UTC timestamp is the number of whole   *)
(* hours since 2020-03-07 00:00 UTC (only the date and the hour of a       *)
(* timestamp are ever used).  A local date is the number of days since     *)
(* 2020-03-07 (Pacific time).                                              *)
(***************************************************************************)
EXTENDS Integers, Sequences, FiniteSets, TLC

VARIABLES
    indoor_file,            \* rows of the indoor CSV file (input)
    outdoor_file,           \* rows of the outdoor CSV file (input)
    extrapolate_data,       \* parameter of calculate_temp_data
    pc,                     \* position in calculate_temp_data
    row_idx,                \* next row of the file being read
    temps_per_day,          \* date -> DateStats
    date_queue,             \* dates the outer for loop has still to visit
    cur_date,               \* loop variable `date`
    hour_queue,             \* hour keys the inner for loop has still to visit
    daily_max_indoor_temp,
    total_adequate_hours,
    total_inadequate_hours,
    stdout,                 \* what print() has written
    pass,                   \* number of the finalization pass (1, or 2 under SpecTwice)
    first_final             \* date -> the day's aggregates at the end of pass 1

vars == <<indoor_file, outdoor_file, extrapolate_data, pc, row_idx, temps_per_day,
          date_queue, cur_date, hour_queue, daily_max_indoor_temp,
          total_adequate_hours, total_inadequate_hours, stdout, pass, first_final>>

(***************************************************************************)
(* Bounds of the model                                                     *)
(***************************************************************************)
MaxIndoorRows == 2
MaxOutdoorRows == 2

(***************************************************************************)
(* Program constants                                                       *)
(***************************************************************************)
\* round(x, 2): stored temperatures are hundredths of a degree
Cent == 100

HABITABLE_TEMP == 68

\* variant: the window taken as one span, without the midday gap
HeatHoursNoGap == 5..20

HABITABLE_HEAT_HOURS == {5, 6, 7, 8, 9, 10, 11, 15, 16, 17, 18, 19, 20}

INDOOR_OUTDOOR_DELTA == 10

\* US/Pacific: daylight time starts 2020-03-08 10:00 UTC, i.e. hour 34 of the timeline
DstStartUtc == 34

(***************************************************************************)
(* Arithmetic helpers                                                      *)
(***************************************************************************)
\* n / d rounded to the nearest integer, ties to even (d > 0); Python's round()
RoundDiv(n, d) ==
    LET q == n \div d
        r == n % d
    IN  IF 2 * r < d THEN q
        ELSE IF 2 * r > d THEN q + 1
        ELSE IF q % 2 = 0 THEN q ELSE q + 1

RECURSIVE SeqSum(_)
SeqSum(s) == IF s = <<>> THEN 0 ELSE Head(s) + SeqSum(Tail(s))

RECURSIVE SeqMax(_)
SeqMax(s) == IF Len(s) = 1 THEN s[1]
             ELSE LET m == SeqMax(Tail(s)) IN IF Head(s) >= m THEN Head(s) ELSE m

Max2(a, b) == IF a >= b THEN a ELSE b

\* round(statistics.mean(temps), 2) on a non-empty list of hundredths
RoundedMean(temps) == RoundDiv(SeqSum(temps), Len(temps))

EmptyMap == [x \in {} |-> x]

Put(f, k, v) == [x \in (DOMAIN f) \cup {k} |-> IF x = k THEN v ELSE f[x]]

(***************************************************************************)
(* Dataclasses                                                             *)
(***************************************************************************)
HourStats ==
    [indoor_temps |-> <<>>, outdoor_temps |-> <<>>, avg_indoor_temp |-> 0,
     max_indoor_temp |-> 0, avg_outdoor_temp |-> 0, is_habitable_hour |-> FALSE]

DateStats ==
    [hours |-> EmptyMap, avg_indoor_temp |-> 0, max_indoor_temp |-> 0,
     avg_outdoor_temp |-> 0, adequate_hour_count |-> 0, inadequate_hour_count |-> 0,
     majority_adequate |-> TRUE]

(***************************************************************************)
(* Pure functions of the module                                            *)
(***************************************************************************)
is_heat_required(hour) == hour \in HABITABLE_HEAT_HOURS

\* variant: strictly above the threshold
is_habitable_temp_strict(temp) == temp > HABITABLE_TEMP * Cent

is_habitable_temp(temp) == temp >= HABITABLE_TEMP * Cent

\* the local time, in hours since 2020-03-07 00:00 Pacific standard/daylight time
convert_utc_to_pt(utc_dt) == IF utc_dt < DstStartUtc THEN utc_dt - 8 ELSE utc_dt - 7

pt_date(pt_dt) == pt_dt \div 24

pt_hour(pt_dt) == pt_dt % 24

\* f"{pt_dt.hour:02}": the two decimal digits of the hour
hour_str(hour) == <<hour \div 10, hour % 10>>

\* int(hour) on a two digit string
int_of(hs) == 10 * hs[1] + hs[2]

\* str < str, on two digit strings
StrLess(a, b) == a[1] < b[1] \/ (a[1] = b[1] /\ a[2] < b[2])

\* sorted() of a set of dates
RECURSIVE SortedDates(_)
SortedDates(S) ==
    IF S = {} THEN <<>>
    ELSE LET m == CHOOSE x \in S : \A y \in S : x <= y
         IN  <<m>> \o SortedDates(S \ {m})

\* sorted() of a set of hour keys
RECURSIVE SortedHours(_)
SortedHours(S) ==
    IF S = {} THEN <<>>
    ELSE LET m == CHOOSE x \in S : \A y \in S : x = y \/ StrLess(x, y)
         IN  <<m>> \o SortedHours(S \ {m})

(***************************************************************************)
(* Input files                                                             *)
(***************************************************************************)
\* csv.reader yields [] for a blank line
BlankRow == <<>>

\* indoor layout: timestamp, temperature.  The timestamps fall in the local hours
\* 2020-03-07 09h and 12h (standard time) and 2020-03-08 09h (daylight time).
IndoorRows ==
    {<<17, 70000>>, <<17, 72004>>, <<17, -5004>>,
     <<20, 70000>>,
     <<40, 70000>>, <<40, -5004>>}

\* outdoor layout: unused column, timestamp, temperature.  The timestamps fall in the
\* local hours 2020-03-07 06h and 09h and 2020-03-08 09h.
OutdoorRows ==
    {<<"KSFO", 14, 50000>>,
     <<"KSFO", 17, 50000>>, <<"KSFO", 17, 57996>>,
     <<"KSFO", 40, 50000>>, <<"KSFO", 40, 57996>>}

BoundedSeq(S, n) == UNION {[1..k -> S] : k \in 0..n}

\* one reading in each local hour of 2020-03-07, and a blank line in the middle
FullDayIndoor ==
    [k \in 1..25 |-> IF k = 13 THEN BlankRow
                     ELSE <<(IF k < 13 THEN 7 + k ELSE 6 + k), 70000>>]

FullDayOutdoor ==
    [k \in 1..25 |-> IF k = 13 THEN BlankRow
                     ELSE <<"KSFO", (IF k < 13 THEN 7 + k ELSE 6 + k), 50000>>]

IndoorFiles == BoundedSeq(IndoorRows, MaxIndoorRows) \cup {FullDayIndoor}

OutdoorFiles == BoundedSeq(OutdoorRows, MaxOutdoorRows) \cup {FullDayOutdoor}

(***************************************************************************)
(* Initial state: calculate_temp_data(extrapolate_data) is entered         *)
(***************************************************************************)
Init ==
    /\ indoor_file \in IndoorFiles
    /\ outdoor_file \in OutdoorFiles
    /\ extrapolate_data \in BOOLEAN
    /\ pc = "load_indoor"
    /\ row_idx = 1
    /\ temps_per_day = EmptyMap
    /\ date_queue = <<>>
    /\ cur_date = 0
    /\ hour_queue = <<>>
    /\ daily_max_indoor_temp = 0
    /\ total_adequate_hours = 0
    /\ total_inadequate_hours = 0
    /\ stdout = <<>>
    /\ pass = 1
    /\ first_final = EmptyMap

(***************************************************************************)
(* load_indoor_temps / load_outdoor_temps                                  *)
(***************************************************************************)
\* daily_dict[date].hours[hour].indoor_temps.append(temp), with defaultdict creation
AppendIndoor(daily_dict, date, hour, temp) ==
    LET ds == IF date \in DOMAIN daily_dict THEN daily_dict[date] ELSE DateStats
        hs == IF hour \in DOMAIN ds.hours THEN ds.hours[hour] ELSE HourStats
        hs2 == [hs EXCEPT !.indoor_temps = Append(@, temp)]
    IN  Put(daily_dict, date, [ds EXCEPT !.hours = Put(ds.hours, hour, hs2)])

\* daily_dict[date].hours[hour].outdoor_temps.append(temp), with defaultdict creation
AppendOutdoor(daily_dict, date, hour, temp) ==
    LET ds == IF date \in DOMAIN daily_dict THEN daily_dict[date] ELSE DateStats
        hs == IF hour \in DOMAIN ds.hours THEN ds.hours[hour] ELSE HourStats
        hs2 == [hs EXCEPT !.outdoor_temps = Append(@, temp)]
    IN  Put(daily_dict, date, [ds EXCEPT !.hours = Put(ds.hours, hour, hs2)])

\* the body of the for loop of load_indoor_temps, for one row
IndoorRowLoaded(daily_dict, row) ==
    IF row = BlankRow THEN daily_dict
    ELSE LET temp == RoundDiv(row[2], 10)
             pt_dt == convert_utc_to_pt(row[1])
         IN  AppendIndoor(daily_dict, pt_date(pt_dt), hour_str(pt_hour(pt_dt)), temp)

\* the body of the for loop of load_outdoor_temps, for one row
OutdoorRowLoaded(daily_dict, row) ==
    IF row = BlankRow THEN daily_dict
    ELSE LET temp == RoundDiv(row[3], 10)
             pt_dt == convert_utc_to_pt(row[2])
         IN  AppendOutdoor(daily_dict, pt_date(pt_dt), hour_str(pt_hour(pt_dt)), temp)

LoadFrame ==
    UNCHANGED <<indoor_file, outdoor_file, extrapolate_data, cur_date, hour_queue,
                daily_max_indoor_temp, total_adequate_hours, total_inadequate_hours,
                stdout, pass, first_final>>

LoadIndoorRow ==
    /\ pc = "load_indoor"
    /\ row_idx <= Len(indoor_file)
    /\ temps_per_day' = IndoorRowLoaded(temps_per_day, indoor_file[row_idx])
    /\ row_idx' = row_idx + 1
    /\ UNCHANGED <<pc, date_queue>>
    /\ LoadFrame

LoadIndoorDone ==
    /\ pc = "load_indoor"
    /\ row_idx > Len(indoor_file)
    /\ pc' = "load_outdoor"
    /\ row_idx' = 1
    /\ UNCHANGED <<temps_per_day, date_queue>>
    /\ LoadFrame

LoadOutdoorRow ==
    /\ pc = "load_outdoor"
    /\ row_idx <= Len(outdoor_file)
    /\ temps_per_day' = OutdoorRowLoaded(temps_per_day, outdoor_file[row_idx])
    /\ row_idx' = row_idx + 1
    /\ UNCHANGED <<pc, date_queue>>
    /\ LoadFrame

\* end of the outdoor file: sorted(temps_per_day.items()) starts the outer loop
LoadOutdoorDone ==
    /\ pc = "load_outdoor"
    /\ row_idx > Len(outdoor_file)
    /\ pc' = "date_loop"
    /\ date_queue' = SortedDates(DOMAIN temps_per_day)
    /\ UNCHANGED <<temps_per_day, row_idx>>
    /\ LoadFrame

(***************************************************************************)
(* calculate_temp_data: the finalization loops                             *)
(***************************************************************************)
\* variant: the estimate is made whatever extrapolate_data says
HourBranchIgnoreFlag(hour_stats, extrapolate) ==
    IF hour_stats.outdoor_temps = <<>> THEN "no_outdoor"
    ELSE IF hour_stats.indoor_temps # <<>> THEN "measured"
    ELSE "extrapolated"

\* variant: the else arm lacks its continue, so the hour goes on to be counted
HourBranchNoContinue(hour_stats, extrapolate) ==
    IF hour_stats.outdoor_temps = <<>> THEN "no_outdoor"
    ELSE IF hour_stats.indoor_temps # <<>> THEN "measured"
    ELSE IF extrapolate THEN "extrapolated"
    ELSE "no_outdoor"

\* which arm of the if of lines 119-141 the hour takes
HourBranch(hour_stats, extrapolate) ==
    IF hour_stats.outdoor_temps = <<>> THEN "no_outdoor"
    ELSE IF hour_stats.indoor_temps # <<>> THEN "measured"
    ELSE IF extrapolate THEN "extrapolated"
    ELSE "skipped"

\* the hour's statistics after lines 119-141
HourAverages(hour_stats, branch) ==
    IF branch = "no_outdoor" THEN hour_stats
    ELSE LET avg_out == RoundedMean(hour_stats.outdoor_temps)
         IN  IF branch = "measured"
             THEN [hour_stats EXCEPT
                     !.avg_outdoor_temp = avg_out,
                     !.avg_indoor_temp = RoundedMean(hour_stats.indoor_temps),
                     !.max_indoor_temp = SeqMax(hour_stats.indoor_temps)]
             ELSE IF branch = "extrapolated"
             THEN [hour_stats EXCEPT
                     !.avg_outdoor_temp = avg_out,
                     !.avg_indoor_temp = avg_out + INDOOR_OUTDOOR_DELTA * Cent]
             ELSE [hour_stats EXCEPT !.avg_outdoor_temp = avg_out]

\* variant: only measured hours raise the day's maximum
DailyMaxMeasuredOnly(daily_max, hour_stats, branch) ==
    IF branch = "measured" THEN Max2(daily_max, hour_stats.max_indoor_temp)
    ELSE daily_max

\* daily_max_indoor_temp after lines 119-141
DailyMaxAfter(daily_max, hour_stats, branch) ==
    IF branch = "measured" THEN Max2(daily_max, hour_stats.max_indoor_temp)
    ELSE IF branch = "extrapolated" THEN Max2(daily_max, hour_stats.avg_indoor_temp)
    ELSE daily_max

\* variant: a tie is not a majority
MajorityAdequateStrict(adequate, inadequate) == adequate > inadequate

\* date_stats.majority_adequate, lines 155-157
MajorityAdequate(adequate, inadequate) == adequate >= inadequate

\* round(100 * total_inadequate_hours / total_habitable_hours, 2), in hundredths of a percent
InadequatePercent(inadequate, habitable) == RoundDiv(100 * Cent * inadequate, habitable)

FinalizeFrame ==
    UNCHANGED <<indoor_file, outdoor_file, extrapolate_data, row_idx>>

\* for date, date_stats in sorted(temps_per_day.items()): daily_max_indoor_temp = 0
NextDate ==
    /\ pc = "date_loop"
    /\ date_queue # <<>>
    /\ cur_date' = Head(date_queue)
    /\ date_queue' = Tail(date_queue)
    /\ daily_max_indoor_temp' = 0
    /\ hour_queue' = SortedHours(DOMAIN temps_per_day[Head(date_queue)].hours)
    /\ pc' = "hour_loop"
    /\ UNCHANGED <<temps_per_day, total_adequate_hours, total_inadequate_hours,
                   stdout, pass, first_final>>
    /\ FinalizeFrame

\* one iteration of: for hour, hour_stats in sorted(date_stats.hours.items())
FinalizeHour ==
    /\ pc = "hour_loop"
    /\ hour_queue # <<>>
    /\ LET hour == Head(hour_queue)
           date_stats == temps_per_day[cur_date]
           branch == HourBranch(date_stats.hours[hour], extrapolate_data)
           hs1 == HourAverages(date_stats.hours[hour], branch)
       IN  IF branch = "skipped"
           THEN /\ temps_per_day' =
                      [temps_per_day EXCEPT ![cur_date].hours[hour] = hs1]
                /\ stdout' = Append(stdout,
                      [kind |-> "skip", date |-> cur_date, hour |-> hour])
                /\ UNCHANGED <<daily_max_indoor_temp, total_adequate_hours,
                               total_inadequate_hours>>
           ELSE LET hs2 == [hs1 EXCEPT
                              !.is_habitable_hour = is_heat_required(int_of(hour))]
                    adequate == hs2.is_habitable_hour
                                  /\ is_habitable_temp(hs2.avg_indoor_temp)
                    inadequate == hs2.is_habitable_hour
                                  /\ ~is_habitable_temp(hs2.avg_indoor_temp)
                    a == IF adequate THEN 1 ELSE 0
                    i == IF inadequate THEN 1 ELSE 0
                IN  /\ temps_per_day' =
                          [temps_per_day EXCEPT ![cur_date] =
                              [date_stats EXCEPT
                                  !.hours = [date_stats.hours EXCEPT ![hour] = hs2],
                                  !.adequate_hour_count = @ + a,
                                  !.inadequate_hour_count = @ + i]]
                    /\ total_adequate_hours' = total_adequate_hours + a
                    /\ total_inadequate_hours' = total_inadequate_hours + i
                    /\ daily_max_indoor_temp' =
                          DailyMaxAfter(daily_max_indoor_temp, hs1, branch)
                    /\ UNCHANGED stdout
    /\ hour_queue' = Tail(hour_queue)
    /\ UNCHANGED <<pc, date_queue, cur_date, pass, first_final>>
    /\ FinalizeFrame

\* the aggregates of a day that the per-day line prints
DayAggregates(date_stats) ==
    [majority_adequate |-> date_stats.majority_adequate,
     adequate_hour_count |-> date_stats.adequate_hour_count,
     inadequate_hour_count |-> date_stats.inadequate_hour_count,
     max_indoor_temp |-> date_stats.max_indoor_temp]

\* lines 154-161: the end of the outer loop's body
FinalizeDate ==
    /\ pc = "hour_loop"
    /\ hour_queue = <<>>
    /\ LET old == temps_per_day[cur_date]
           new == [old EXCEPT
                     !.max_indoor_temp = daily_max_indoor_temp,
                     !.majority_adequate =
                         MajorityAdequate(old.adequate_hour_count,
                                          old.inadequate_hour_count)]
       IN  /\ temps_per_day' = [temps_per_day EXCEPT ![cur_date] = new]
           /\ stdout' = Append(stdout,
                 [kind |-> "day", date |-> cur_date, line |-> DayAggregates(new)])
           /\ first_final' = IF pass = 1
                             THEN Put(first_final, cur_date, DayAggregates(new))
                             ELSE first_final
    /\ pc' = "date_loop"
    /\ UNCHANGED <<date_queue, cur_date, hour_queue, daily_max_indoor_temp,
                   total_adequate_hours, total_inadequate_hours, pass>>
    /\ FinalizeFrame

\* lines 163-166: the summary line; the division raises when no hour was counted
Report ==
    /\ pc = "date_loop"
    /\ date_queue = <<>>
    /\ LET total_habitable_hours == total_adequate_hours + total_inadequate_hours
       IN  IF total_habitable_hours = 0
           THEN /\ pc' = "ZeroDivisionError"
                /\ UNCHANGED stdout
           ELSE /\ pc' = "done"
                /\ stdout' = Append(stdout,
                      [kind |-> "summary",
                       delta |-> INDOOR_OUTDOOR_DELTA,
                       inadequate |-> total_inadequate_hours,
                       habitable |-> total_habitable_hours,
                       percent |-> InadequatePercent(total_inadequate_hours,
                                                     total_habitable_hours),
                       threshold |-> HABITABLE_TEMP])
    /\ UNCHANGED <<temps_per_day, date_queue, cur_date, hour_queue,
                   daily_max_indoor_temp, total_adequate_hours,
                   total_inadequate_hours, pass, first_final>>
    /\ FinalizeFrame

\* the outer loop run a second time over the same, already finalized, DateStats
SecondPass ==
    /\ pc = "date_loop"
    /\ date_queue = <<>>
    /\ pass = 1
    /\ pass' = 2
    /\ date_queue' = SortedDates(DOMAIN temps_per_day)
    /\ UNCHANGED <<pc, temps_per_day, cur_date, hour_queue, daily_max_indoor_temp,
                   total_adequate_hours, total_inadequate_hours, stdout, first_final>>
    /\ FinalizeFrame

Next ==
    \/ LoadIndoorRow
    \/ LoadIndoorDone
    \/ LoadOutdoorRow
    \/ LoadOutdoorDone
    \/ NextDate
    \/ FinalizeHour
    \/ FinalizeDate
    \/ Report

Spec == Init /\ [][Next]_vars

NextTwice == Next \/ SecondPass

SpecTwice == Init /\ [][NextTwice]_vars

(***************************************************************************)
(* Vocabulary of the properties                                            *)
(***************************************************************************)
Range(s) == {s[k] : k \in DOMAIN s}

Dates == DOMAIN temps_per_day

HourKeys(d) == DOMAIN temps_per_day[d].hours

Finalizing == pc \in {"date_loop", "hour_loop", "done", "ZeroDivisionError"}

Reported == pc \in {"done", "ZeroDivisionError"}

\* the outer loop has run its whole body for date d (in the current pass)
DayFinalized(d) ==
    /\ Finalizing
    /\ d \in Dates
    /\ d \notin Range(date_queue)
    /\ ~(pc = "hour_loop" /\ d = cur_date)

\* the inner loop has visited hour hk of date d (in the current pass)
HourVisited(d, hk) ==
    \/ DayFinalized(d)
    \/ (pc = "hour_loop" /\ d = cur_date /\ hk \notin Range(hour_queue))

\* the inner loop is about to run its body for an hour
AtHour == pc = "hour_loop" /\ hour_queue # <<>>

MandatedHours == {5, 6, 7, 8, 9, 10, 11, 15, 16, 17, 18, 19, 20}

\* the hour has an indoor temperature: measured from its indoor readings, or
\* estimated from its outdoor readings
Resolved(hs) ==
    \/ hs.indoor_temps # <<>>
    \/ (hs.outdoor_temps # <<>> /\ extrapolate_data)

\* the mandated hours of date d that have an indoor temperature
CountedHours(d) ==
    {hk \in HourKeys(d) :
        int_of(hk) \in MandatedHours /\ Resolved(temps_per_day[d].hours[hk])}

RECURSIVE SumOverDates(_, _)
SumOverDates(S, field) ==
    IF S = {} THEN 0
    ELSE LET d == CHOOSE x \in S : TRUE
         IN  temps_per_day[d][field] + SumOverDates(S \ {d}, field)

RECURSIVE SumCounted(_)
SumCounted(S) ==
    IF S = {} THEN 0
    ELSE LET d == CHOOSE x \in S : TRUE
         IN  Cardinality(CountedHours(d)) + SumCounted(S \ {d})

SetMax(S) == CHOOSE x \in S : \A y \in S : x >= y

(***************************************************************************)
(* Properties                                                              *)
(***************************************************************************)
\* C1: every hour the loop has visited that has at least one indoor reading has
\* avg_indoor_temp = the (rounded) mean of its indoor readings and max_indoor_temp =
\* their maximum, whether or not the hour has an outdoor reading.
C1_IndoorAveraged ==
    \A d \in Dates : \A hk \in HourKeys(d) :
        LET hs == temps_per_day[d].hours[hk]
        IN  (HourVisited(d, hk) /\ hs.indoor_temps # <<>>)
            => /\ hs.avg_indoor_temp = RoundedMean(hs.indoor_temps)
               /\ hs.max_indoor_temp = SeqMax(hs.indoor_temps)

C3_ReportCompletes ==
    (total_adequate_hours + total_inadequate_hours = 0) => pc # "ZeroDivisionError"

\* C4: with extrapolation on, the loop body run for an hour with outdoor readings
\* and no indoor reading sets avg_indoor_temp = avg_outdoor_temp + 10 and uses it
\* like a measured value: for the verdict of a mandated hour (outdoor 50 at hour 06
\* gives 60, counted inadequate) and for the day's running maximum.
C4_Extrapolated ==
    [][(AtHour /\ extrapolate_data
          /\ temps_per_day[cur_date].hours[Head(hour_queue)].indoor_temps = <<>>
          /\ temps_per_day[cur_date].hours[Head(hour_queue)].outdoor_temps # <<>>)
       =>
        LET hk == Head(hour_queue)
            before == temps_per_day[cur_date]
            after == temps_per_day'[cur_date]
            hs == after.hours[hk]
            da == after.adequate_hour_count - before.adequate_hour_count
            di == after.inadequate_hour_count - before.inadequate_hour_count
        IN  /\ hs.avg_outdoor_temp = RoundedMean(hs.outdoor_temps)
            /\ hs.avg_indoor_temp = hs.avg_outdoor_temp + 1000
            /\ daily_max_indoor_temp' =
                  Max2(daily_max_indoor_temp, hs.avg_indoor_temp)
            /\ int_of(hk) \in MandatedHours
               => /\ da = (IF hs.avg_indoor_temp >= 6800 THEN 1 ELSE 0)
                  /\ di = (IF hs.avg_indoor_temp >= 6800 THEN 0 ELSE 1)
                  /\ total_adequate_hours' = total_adequate_hours + da
                  /\ total_inadequate_hours' = total_inadequate_hours + di
            /\ (hk = <<0, 6>> /\ hs.outdoor_temps = <<5000>>)
               => (hs.avg_indoor_temp = 6000 /\ di = 1)
    ]_vars

\* C4 witness: hour 06 with the single outdoor reading 50 was estimated at 60 and
\* counted inadequate, and the day's maximum is that estimate
C4_Witness ==
    \E d \in Dates :
        /\ DayFinalized(d)
        /\ extrapolate_data
        /\ <<0, 6>> \in HourKeys(d)
        /\ temps_per_day[d].hours[<<0, 6>>].indoor_temps = <<>>
        /\ temps_per_day[d].hours[<<0, 6>>].outdoor_temps = <<5000>>
        /\ temps_per_day[d].hours[<<0, 6>>].avg_indoor_temp = 6000
        /\ temps_per_day[d].inadequate_hour_count = 1
        /\ temps_per_day[d].max_indoor_temp = 6000

\* C5: with extrapolation off, the loop body run for an hour with outdoor readings
\* and no indoor reading leaves the day's two counters, the dataset totals, the
\* running maximum and the hour's avg_indoor_temp unchanged, gives the hour no
\* verdict, and prints the skip line for that date and hour.
C5_SkippedHour ==
    [][(AtHour /\ ~extrapolate_data
          /\ temps_per_day[cur_date].hours[Head(hour_queue)].indoor_temps = <<>>
          /\ temps_per_day[cur_date].hours[Head(hour_queue)].outdoor_temps # <<>>)
       =>
        LET hk == Head(hour_queue)
            before == temps_per_day[cur_date]
            after == temps_per_day'[cur_date]
        IN  /\ after.adequate_hour_count = before.adequate_hour_count
            /\ after.inadequate_hour_count = before.inadequate_hour_count
            /\ total_adequate_hours' = total_adequate_hours
            /\ total_inadequate_hours' = total_inadequate_hours
            /\ daily_max_indoor_temp' = daily_max_indoor_temp
            /\ after.hours[hk].avg_indoor_temp = before.hours[hk].avg_indoor_temp
            /\ after.hours[hk].is_habitable_hour = before.hours[hk].is_habitable_hour
            /\ stdout' = Append(stdout,
                  [kind |-> "skip", date |-> cur_date, hour |-> hk])
    ]_vars

\* C5 witness: a mandated hour was skipped and its day ended with both counters 0
C5_Witness ==
    /\ ~extrapolate_data
    /\ \E k \in DOMAIN stdout :
          /\ stdout[k].kind = "skip"
          /\ int_of(stdout[k].hour) \in MandatedHours
          /\ DayFinalized(stdout[k].date)
          /\ temps_per_day[stdout[k].date].adequate_hour_count = 0
          /\ temps_per_day[stdout[k].date].inadequate_hour_count = 0
          /\ temps_per_day[stdout[k].date].hours[stdout[k].hour].outdoor_temps # <<>>

\* C6: once the outer loop, run a second time over the same DateStats, has finalized
\* a day again, the day's adequate_hour_count, inadequate_hour_count,
\* max_indoor_temp and majority_adequate are what they were after the first pass.
C6_FinalizeIdempotent ==
    \A d \in Dates :
        (pass = 2 /\ DayFinalized(d)) => DayAggregates(temps_per_day[d]) = first_final[d]

\* the indoor temperature of a resolved hour, read as the hour's maximum reading
ResolvedPeak(hs) ==
    IF hs.indoor_temps # <<>> THEN SeqMax(hs.indoor_temps)
    ELSE RoundedMean(hs.outdoor_temps) + 1000

\* the indoor temperature of a resolved hour, read as the hour's average
ResolvedAverage(hs) ==
    IF hs.indoor_temps # <<>> THEN RoundedMean(hs.indoor_temps)
    ELSE RoundedMean(hs.outdoor_temps) + 1000

\* C7: a finalized day's max_indoor_temp is the maximum of the indoor temperatures
\* of its resolved hours (measured or estimated; either reading of "the hour's
\* indoor temperature" is accepted), and it is 0 exactly when the day has no
\* resolved hour.
C7_DailyMax ==
    \A d \in Dates :
        DayFinalized(d) =>
            LET hours == temps_per_day[d].hours
                R == {hk \in HourKeys(d) : Resolved(hours[hk])}
                m == temps_per_day[d].max_indoor_temp
            IN  /\ (m = 0) <=> (R = {})
                /\ R # {} =>
                      \/ m = SetMax({ResolvedPeak(hours[hk]) : hk \in R})
                      \/ m = SetMax({ResolvedAverage(hours[hk]) : hk \in R})

\* C8: no hour slot without a reading exists, so none is visited; a finalized day's
\* counters count exactly its mandated hours that have an indoor temperature, the
\* dataset totals count exactly those hours of all days, and a day's
\* max_indoor_temp, when not 0, is a value of one of its hours that has readings.
C8_EmptySlotsNotCounted ==
    /\ \A d \in Dates : \A hk \in HourKeys(d) :
          Len(temps_per_day[d].hours[hk].indoor_temps)
            + Len(temps_per_day[d].hours[hk].outdoor_temps) > 0
    /\ \A d \in Dates :
          DayFinalized(d) =>
             /\ temps_per_day[d].adequate_hour_count
                  + temps_per_day[d].inadequate_hour_count
                = Cardinality(CountedHours(d))
             /\ temps_per_day[d].max_indoor_temp # 0 =>
                   \E hk \in HourKeys(d) :
                      temps_per_day[d].max_indoor_temp \in
                          {temps_per_day[d].hours[hk].avg_indoor_temp,
                           temps_per_day[d].hours[hk].max_indoor_temp}
    /\ Reported =>
          total_adequate_hours + total_inadequate_hours = SumCounted(Dates)

\* C8 witness: the run is over, a day holds a mandated hour that was counted, a
\* mandated hour that was skipped, and lacks the other hour slots
C8_Witness ==
    /\ Reported
    /\ \E d \in Dates :
          /\ Cardinality(CountedHours(d)) = 1
          /\ temps_per_day[d].adequate_hour_count
               + temps_per_day[d].inadequate_hour_count = 1
          /\ \E hk \in HourKeys(d) :
                int_of(hk) \in MandatedHours /\ hk \notin CountedHours(d)
          /\ Cardinality(HourKeys(d)) = 2

\* C9: at every point the dataset totals are the sums of the days' counters, and no
\* day counts more than 13 hours.
C9_TotalsAreSums ==
    /\ total_adequate_hours = SumOverDates(Dates, "adequate_hour_count")
    /\ total_inadequate_hours = SumOverDates(Dates, "inadequate_hour_count")
    /\ \A d \in Dates :
          temps_per_day[d].adequate_hour_count
            + temps_per_day[d].inadequate_hour_count <= 13

\* C9 witness: one day counted all 13 mandated hours, another day counted too
C9_Witness ==
    /\ Reported
    /\ \E d \in Dates :
          temps_per_day[d].adequate_hour_count
            + temps_per_day[d].inadequate_hour_count = 13
    /\ total_adequate_hours + total_inadequate_hours > 13
    /\ total_adequate_hours > 0
    /\ total_inadequate_hours > 0

\* C10: every finalized day has majority_adequate = (adequate_hour_count >=
\* inadequate_hour_count); a day none of whose mandated hours was counted has both
\* counters 0 and majority_adequate true.
C10_Majority ==
    \A d \in Dates :
        DayFinalized(d) =>
            /\ temps_per_day[d].majority_adequate
                 = (temps_per_day[d].adequate_hour_count
                      >= temps_per_day[d].inadequate_hour_count)
            /\ CountedHours(d) = {} =>
                  /\ temps_per_day[d].adequate_hour_count = 0
                  /\ temps_per_day[d].inadequate_hour_count = 0
                  /\ temps_per_day[d].majority_adequate = TRUE

\* C10 witness: a finalized day with a tie of counted hours, judged adequate, next to
\* a finalized day judged inadequate
C10_Witness ==
    /\ \E d \in Dates :
          /\ DayFinalized(d)
          /\ temps_per_day[d].adequate_hour_count = 1
          /\ temps_per_day[d].inadequate_hour_count = 1
          /\ temps_per_day[d].majority_adequate
    /\ \E d \in Dates :
          /\ DayFinalized(d)
          /\ ~temps_per_day[d].majority_adequate

====
